---- MODULE Spec2Model ----
(***************************************************************************)
(* BQPipe: the write path of the two warehouse clients                     *)
(* (BigQueryClient.write_to_bigquery in bqpipe/core.py with the helpers of *)
(* bqpipe/helpers.py, SnowflakeClient.insert_into_table with the module    *)
(* functions of bqpipe/snowflake.py), their reads (fetch_table_data,       *)
(* fetch_sql_output, list_tables_in_dataset, get_table_schema) and the     *)
(* scope of a SnowflakeClient, as a state machine.                         *)
(*                                                                         *)
(* Python values: a str is a sequence of one-character strings, so that    *)
(* lower(), upper() and strip() are computed; a dict is a function whose   *)
(* DOMAIN is its key set; an optional value is None (the empty sequence)   *)
(* or Some(v) (the one-element sequence); enumerations and exception       *)
(* class names are TLA+ strings.                                           *)
(***************************************************************************)
EXTENDS Integers, Sequences, FiniteSets, TLC

VARIABLES
    table,       \* the destination table in the warehouse: absent, empty, populated
    pc,          \* position of the caller: idle, exists_check, submit, wait, done
    op,          \* the function being called
    backend,     \* the module the called function belongs to
    args,        \* the arguments as the caller passed them
    dataframe,   \* the caller's DataFrame object (mutated in place by the write)
    schema_obj,  \* the caller's custom schema object (its dicts are mutated in place)
    locals,      \* local variables of the running write call
    wh_calls,    \* warehouse requests issued by the running call, in order
    loads,       \* load job configurations submitted by the running call, in order
    job,         \* the load job of the running call
    outcome,     \* how the call ended: a returned value or a raised exception
    writers,     \* two callers that write to the same table at the same time
    client       \* the connection and the cursor of a SnowflakeClient

vars == <<table, pc, op, backend, args, dataframe, schema_obj, locals, wh_calls, loads, job,
          outcome, writers, client>>

----------------------------------------------------------------------------
(* Bounds of the model *)

\* longest custom schema handed to get_detected_schema directly
MaxSchemaLen == 2
\* most rows of an input DataFrame
MaxRows == 1

----------------------------------------------------------------------------
(* Python values *)

None == <<>>
Some(v) == <<v>>
IsNone(o) == o = <<>>
Val(o) == o[1]

UpperAlpha ==
    <<"A","B","C","D","E","F","G","H","I","J","K","L","M",
      "N","O","P","Q","R","S","T","U","V","W","X","Y","Z">>
LowerAlpha ==
    <<"a","b","c","d","e","f","g","h","i","j","k","l","m",
      "n","o","p","q","r","s","t","u","v","w","x","y","z">>

LowerChar(c) ==
    IF \E i \in DOMAIN UpperAlpha : UpperAlpha[i] = c
    THEN LowerAlpha[CHOOSE i \in DOMAIN UpperAlpha : UpperAlpha[i] = c]
    ELSE c
UpperChar(c) ==
    IF \E i \in DOMAIN LowerAlpha : LowerAlpha[i] = c
    THEN UpperAlpha[CHOOSE i \in DOMAIN LowerAlpha : LowerAlpha[i] = c]
    ELSE c

\* str.lower()
Lower(s) == [i \in 1..Len(s) |-> LowerChar(s[i])]
\* str.upper()
Upper(s) == [i \in 1..Len(s) |-> UpperChar(s[i])]

Whitespace == {" ", "\t", "\n", "\r", "\f"}
\* str.strip(): leading and trailing whitespace removed
Strip(s) ==
    LET keep == {i \in 1..Len(s) : s[i] \notin Whitespace}
    IN  IF keep = {} THEN <<>>
        ELSE SubSeq(s, CHOOSE i \in keep : \A j \in keep : i <= j,
                       CHOOSE i \in keep : \A j \in keep : i >= j)

\* x in seq
InSeq(x, seq) == \E i \in 1..Len(seq) : seq[i] = x

----------------------------------------------------------------------------
(* String literals of the source *)

S_append == <<"a","p","p","e","n","d">>
S_truncate == <<"t","r","u","n","c","a","t","e">>
S_created_at == <<"c","r","e","a","t","e","d","_","a","t">>
S_bq_created_at == <<"b","q","_">> \o S_created_at
S_NULLABLE == <<"N","U","L","L","A","B","L","E">>
S_REQUIRED == <<"R","E","Q","U","I","R","E","D">>
S_STRING == <<"S","T","R","I","N","G">>
S_timestamp == <<"t","i","m","e","s","t","a","m","p">>
S_required == <<"r","e","q","u","i","r","e","d">>
\* the description strings of the source, abbreviated to a tag
S_desc_inserted == <<"D","a","t","e">>
S_desc_added == <<"T","i","m","e">>

----------------------------------------------------------------------------
(* Outcomes of a call *)

Running == [kind |-> "none"]
Return(v) == [kind |-> "return", value |-> v]
\* an exception of class exc raised at the given line of the backend's module
Raise(exc, line) == [kind |-> "raise", exc |-> exc, line |-> line]

\* sys.exit() with no argument: SystemExit whose code is None
RaiseExit(code, line) == [kind |-> "raise", exc |-> "SystemExit", line |-> line, code |-> code]

----------------------------------------------------------------------------
(* Module namespaces *)

Backends == {"bigquery", "snowflake"}

\* The module of the backend's client class, and of its two helper functions
ClientModule(b) == IF b = "bigquery" THEN "core" ELSE "snowflake"
HelperModule(b) == IF b = "bigquery" THEN "helpers" ELSE "snowflake"

\* The names bound at module level by each module's import statements.
\* bqpipe/snowflake.py imports neither sys nor bigquery nor errors, and its
\* functions use all three.
ModuleNames(m) ==
    CASE m = "core" ->
            {"datetime", "logging", "pd", "Union", "bigquery", "BadRequest", "NotFound", "helpers"}
      [] m = "helpers" ->
            {"sys", "logging", "pd", "bigquery", "NotFound"}
      [] m = "snowflake" ->
            {"os", "datetime", "logging", "pd", "Union", "default_backend", "rsa", "dsa",
             "serialization", "snowflake", "Error"}

\* Whether a global name resolves in code of module m
Bound(m, name) == name \in ModuleNames(m)

\* Source lines of the statements of get_detected_schema, per module
GdsLine(b, stmt) ==
    IF b = "bigquery"
    THEN CASE stmt = "exit_missing_key" -> 31
           [] stmt = "field" -> 36
           [] stmt = "field_described" -> 38
           [] stmt = "exit_no_schema" -> 44
           [] stmt = "exit_reserved" -> 50
           [] stmt = "created_at_field" -> 52
    ELSE CASE stmt = "exit_missing_key" -> 454
           [] stmt = "field" -> 459
           [] stmt = "field_described" -> 461
           [] stmt = "exit_no_schema" -> 466
           [] stmt = "exit_reserved" -> 472
           [] stmt = "created_at_field" -> 474

\* sys.exit() at the given line: SystemExit where sys is bound, NameError where not
SysExit(b, line) ==
    IF Bound(HelperModule(b), "sys") THEN RaiseExit(None, line) ELSE Raise("NameError", line)

\* bigquery.SchemaField(name, field_type, mode=..., description=...)
SchemaField(name, f_type, mode, description) ==
    [name |-> name, field_type |-> f_type, mode |-> mode, description |-> description]

\* schema[key] = value on a dict
DictSet(d, key, value) ==
    [k \in DOMAIN d \cup {key} |-> IF k = key THEN value ELSE d[k]]

----------------------------------------------------------------------------
(* get_detected_schema *)

\* Line 27 (snowflake.py 450): the entry lacks a required key
MissingKey(schema) == "name" \notin DOMAIN schema \/ "field_type" \notin DOMAIN schema

\* A resolver that keeps the name's letter case
ColumnName_AsGiven(schema) == schema["name"]

\* Line 34 (snowflake.py 457): the column's name, type and mode
ColumnName(schema) == Lower(schema["name"])
ColumnType(schema) == Upper(schema["field_type"])

\* A resolver that keeps the mode's letter case
ColumnMode_AsGiven(schema) == schema["mode"]

ColumnMode(schema) == Upper(schema["mode"])

\* A resolver that lets the caller use the system column's name
Reserved_Never(field_names) == FALSE

\* Line 46 (snowflake.py 468): the caller used the system column's name
Reserved(field_names) == InSeq(S_created_at, field_names)

\* Lines 52-54 (snowflake.py 474-476): the system column closes the schema
WithCreatedAt(output_schema) ==
    Append(output_schema,
           SchemaField(S_created_at, S_STRING, S_REQUIRED, Some(S_desc_inserted)))

\* The for loop over custom_schema from entry i on: entries are the caller's
\* dicts (a missing mode is written into them), out and names the two
\* accumulators.  The result carries the exception that ended the loop, if any.
RECURSIVE GdsLoop(_, _, _, _, _)
GdsLoop(b, entries, i, out, names) ==
    IF i > Len(entries)
    THEN [outcome |-> Running, entries |-> entries, output_schema |-> out, field_names |-> names]
    ELSE
        LET schema == entries[i] IN
        IF MissingKey(schema)
        THEN [outcome |-> SysExit(b, GdsLine(b, "exit_missing_key")), entries |-> entries,
              output_schema |-> out, field_names |-> names]
        ELSE
            LET schema2 == IF "mode" \notin DOMAIN schema
                           THEN DictSet(schema, "mode", S_NULLABLE) ELSE schema
                entries2 == [entries EXCEPT ![i] = schema2]
                name == ColumnName(schema2)
                f_type == ColumnType(schema2)
                mode == ColumnMode(schema2)
                described == "description" \in DOMAIN schema2
                column_schema ==
                    SchemaField(name, f_type, mode,
                                IF described THEN Some(schema2["description"]) ELSE None)
            IN  IF ~Bound(HelperModule(b), "bigquery")
                THEN [outcome |-> Raise("NameError",
                                        GdsLine(b, IF described THEN "field_described" ELSE "field")),
                      entries |-> entries2, output_schema |-> out, field_names |-> names]
                ELSE GdsLoop(b, entries2, i + 1, Append(out, column_schema), Append(names, name))

\* get_detected_schema(dataframe, custom_schema): custom_schema is None or
\* Some(tuple of dicts).  Returns the outcome (the resolved schema, a tuple in
\* helpers.py and a list in snowflake.py, or the exception) and the caller's
\* dicts as the call leaves them.
GetDetectedSchema(b, custom_schema) ==
    IF IsNone(custom_schema) \/ Val(custom_schema) = <<>>
    THEN [outcome |-> SysExit(b, GdsLine(b, "exit_no_schema")), custom_schema |-> custom_schema]
    ELSE
        LET loop == GdsLoop(b, Val(custom_schema), 1, <<>>, <<>>)
            after == Some(loop.entries)
        IN  IF loop.outcome.kind = "raise"
            THEN [outcome |-> loop.outcome, custom_schema |-> after]
            ELSE IF Reserved(loop.field_names)
            THEN [outcome |-> SysExit(b, GdsLine(b, "exit_reserved")), custom_schema |-> after]
            ELSE IF ~Bound(HelperModule(b), "bigquery")
            THEN [outcome |-> Raise("NameError", GdsLine(b, "created_at_field")),
                  custom_schema |-> after]
            ELSE [outcome |-> Return([type |-> IF b = "bigquery" THEN "tuple" ELSE "list",
                                      items |-> WithCreatedAt(loop.output_schema)]),
                  custom_schema |-> after]

----------------------------------------------------------------------------
(* does_table_exist *)

\* the values a does_table_exist call can return: True, False, or None
PyTrue == [type |-> "bool", repr |-> "True"]
PyFalse == [type |-> "bool", repr |-> "False"]
PyNone == [type |-> "NoneType", repr |-> "None"]

\* Truth value of an object the warehouse SDK returns: a bigquery Table
\* object is true, a row tuple is true unless it is empty.
Truthy(v) == IF v.type = "row" THEN v.items # <<>> ELSE TRUE

\* What the warehouse can answer to the metadata request of does_table_exist
\* while the destination table is in state t.
\*   helpers.py: client.get_table(ref) returns the Table or raises NotFound;
\*   snowflake.py: SELECT COUNT(*) ... always yields one row holding the count;
\*   either request can fail for another reason (permissions, connectivity).
ExistsResponses(b, t) ==
    IF b = "bigquery"
    THEN {IF t = "absent" THEN [kind |-> "raise", exc |-> "NotFound"]
                          ELSE [kind |-> "return", value |-> [type |-> "Table"]],
          [kind |-> "raise", exc |-> "Forbidden"]}
    ELSE {[kind |-> "return",
           value |-> [type |-> "row", items |-> <<IF t = "absent" THEN 0 ELSE 1>>]],
          [kind |-> "raise", exc |-> "ProgrammingError"]}

\* A check whose except clause logs the warning and returns nothing
DoesTableExistBigQuery_ExceptFallsThrough(resp) ==
    IF resp.kind = "return"
    THEN IF Truthy(resp.value) THEN Return(PyTrue) ELSE Return(PyNone)
    ELSE IF resp.exc = "NotFound" THEN Return(PyNone)
    ELSE Raise(resp.exc, 12)

\* does_table_exist of helpers.py (lines 8-18): True for a true Table, None
\* when the if falls through, False on NotFound; any other exception passes.
DoesTableExistBigQuery(resp) ==
    IF resp.kind = "return"
    THEN IF Truthy(resp.value) THEN Return(PyTrue) ELSE Return(PyNone)
    ELSE IF resp.exc = "NotFound" THEN Return(PyFalse)
    ELSE Raise(resp.exc, 12)

\* does_table_exist of snowflake.py (lines 422-441): True for a true row of
\* fetchone(), None when the if falls through; the except clause names
\* errors.Error, and errors is not bound in the module.
DoesTableExistSnowflake(resp) ==
    IF resp.kind = "return"
    THEN IF Truthy(resp.value) THEN Return(PyTrue) ELSE Return(PyNone)
    ELSE IF Bound("snowflake", "errors") THEN Return(PyFalse)
    ELSE Raise("NameError", 438)

DoesTableExist(b, resp) ==
    IF b = "bigquery" THEN DoesTableExistBigQuery(resp) ELSE DoesTableExistSnowflake(resp)

\* not x, for x one of does_table_exist's results
PyNot(v) == v # PyTrue

----------------------------------------------------------------------------
(* Inputs *)

S_id == <<"i","d">>
S_Id == <<"I","d">>
S_Created_At == <<"C","r","e","a","t","e","d","_","A","t">>
S_string == <<"s","t","r","i","n","g">>
S_note == <<"n","o","t","e">>
S_sales == <<"s","a","l","e","s">>
S_Sales == <<"S","a","l","e","s">>
S_delete == <<"d","e","l","e","t","e">>

\* A custom schema entry: a dict holding the keys whose value is given
Entry(name, f_type, mode, description) ==
    LET given == [name |-> name, field_type |-> f_type, mode |-> mode,
                  description |-> description]
    IN  [k \in {key \in DOMAIN given : ~IsNone(given[key])} |-> Val(given[k])]

\* The entries a caller may write: every key present or absent
Entries ==
    {Entry(n, t, m, d) :
        n \in {None, Some(S_id), Some(S_Id), Some(S_created_at), Some(S_Created_At)},
        t \in {None, Some(S_string)},
        m \in {None, Some(S_required)},
        d \in {None, Some(S_note)}}

\* Custom schemas handed to get_detected_schema: None, or a tuple of entries
Schemas ==
    {None} \cup {Some(t) : t \in UNION {[1..n -> Entries] : n \in 0..MaxSchemaLen}}

\* Custom schemas handed to a write call: no schema, the empty list, valid
\* schemas (with and without mode and description, upper-case names), and
\* schemas with an entry lacking a key or using the reserved name, first or last
WriteSchemas ==
    LET valid == Entry(Some(S_id), Some(S_string), None, None)
        full == Entry(Some(S_Id), Some(S_string), Some(S_required), Some(S_note))
        noname == Entry(None, Some(S_string), None, None)
        notype == Entry(Some(S_id), None, Some(S_required), None)
        reserved == Entry(Some(S_Created_At), Some(S_string), None, None)
    IN  {None, Some(<<>>), Some(<<valid>>), Some(<<full>>), Some(<<valid, full>>),
         Some(<<noname>>), Some(<<valid, notype>>), Some(<<reserved>>),
         Some(<<valid, reserved>>)}

\* insert_type arguments: the two accepted words in several letter cases and
\* paddings, and words that are not accepted
InsertTypes ==
    {S_append, Upper(S_append), <<" ", "A">> \o SubSeq(S_append, 2, 6) \o <<"\n">>,
     S_truncate, <<"\t", "T">> \o SubSeq(S_truncate, 2, 8) \o <<" ", " ">>,
     <<>>, <<" ">>, S_delete, S_append \o <<"s">>,
     SubSeq(S_append, 1, 3) \o <<" ">> \o SubSeq(S_append, 4, 6)}

\* The DataFrames a caller passes: 0..MaxRows rows of one column
DataFrames == {[rows |-> r, columns |-> <<S_id>>] : r \in 0..MaxRows}

WriteArgs ==
    [destination_table : {<<" ">> \o S_sales, S_Sales \o <<" ">>},
     insert_type : InsertTypes,
     accept_incomplete_schema : BOOLEAN,
     create_table_if_missing : BOOLEAN,
     custom_table_schema : WriteSchemas,
     accept_capital_letters : BOOLEAN]

----------------------------------------------------------------------------
(* State of a call *)

NoFrame == [rows |-> 0, columns |-> <<>>]
NoArgs == [none |-> TRUE]
NoLocals ==
    [destination_table |-> <<>>, insert_type |-> <<>>, table_already_exists |-> TRUE,
     new_table_schema |-> [type |-> "list", items |-> <<>>]]
NoJob == [state |-> "none"]

TableStates == {"absent", "empty", "populated"}

\* A SnowflakeClient before construction: no connection, no cursor
NoClient == [connection |-> "none", cursor |-> "none"]

\* Two callers of write_to_bigquery, each with its own frame of the call
Writers == {1, 2}
NoWriter ==
    [pc |-> "idle", args |-> NoArgs, dataframe |-> NoFrame, schema_obj |-> None,
     locals |-> NoLocals, job |-> NoJob, load |-> 0, outcome |-> Running]

Init ==
    /\ table \in TableStates
    /\ pc = "idle"
    /\ op = "none"
    /\ backend = "none"
    /\ args = NoArgs
    /\ dataframe = NoFrame
    /\ schema_obj = None
    /\ locals = NoLocals
    /\ wh_calls = <<>>
    /\ loads = <<>>
    /\ job = NoJob
    /\ outcome = Running
    /\ writers = [w \in Writers |-> NoWriter]
    /\ client = NoClient

\* Line n of write_to_bigquery in core.py is line n + 124 of insert_into_table
\* in snowflake.py: the two bodies are the same text.
WriteLine(b, n) == IF b = "bigquery" THEN n ELSE n + 124

----------------------------------------------------------------------------
(* write_to_bigquery / insert_into_table *)

S_analytics == <<"a","n","a","l","y","t","i","c","s">>
\* core.py line 10, snowflake.py line 17
DESTINATION_DATASET == S_analytics

\* A validation that knows one of the two words only
AcceptableInsertType_AppendOnly(insert_type) == insert_type = S_append

\* insert_type in insert_type_acceptable_values (lines 219 and 224)
AcceptableInsertType(insert_type) == insert_type \in {S_append, S_truncate}

\* A write that lower-cases the table name whatever the caller's flag says
DestinationTable_AlwaysLower(a) == Lower(Strip(a.destination_table))

\* Lines 217 and 221-222: the table name is stripped, and lower-cased unless
\* the caller accepts capital letters
DestinationTable(a) ==
    IF ~a.accept_capital_letters
    THEN Lower(Strip(a.destination_table))
    ELSE Strip(a.destination_table)

\* Lines 217-226: the arguments are normalised and insert_type is validated.
\* Gives the locals and the exception raised, if any.
Validate(b, a) ==
    LET insert_type == Strip(Lower(a.insert_type))
        destination_table == DestinationTable(a)
        l == [NoLocals EXCEPT !.destination_table = destination_table,
                              !.insert_type = insert_type]
    IN  [locals |-> l,
         outcome |-> IF ~AcceptableInsertType(insert_type)
                     THEN Raise("ValueError", WriteLine(b, 225))
                     ELSE Running]

\* A policy that creates the table whatever the caller's flag says
CreateIfMissing_Always(a) == TRUE

\* Line 233: the caller allows the table to be created
CreateIfMissing(a) == a.create_table_if_missing

\* A write that resolves a schema for every table it creates
SchemaGiven_Always(a) == TRUE

\* Line 236: the caller gave a custom schema
SchemaGiven(a) == ~IsNone(a.custom_table_schema)

\* Lines 228-246, given what does_table_exist returned: the locals, the
\* caller's schema object and the exception raised, if any.
CheckDestination(b, a, l, obj, exists) ==
    IF ~PyNot(exists)
    THEN [locals |-> l, schema_obj |-> obj, outcome |-> Running]
    ELSE
        LET l2 == [l EXCEPT !.table_already_exists = FALSE] IN
        IF CreateIfMissing(a)
        THEN IF SchemaGiven(a)
             THEN LET g == GetDetectedSchema(b, obj) IN
                  IF g.outcome.kind = "raise"
                  THEN [locals |-> l2, schema_obj |-> g.custom_schema, outcome |-> g.outcome]
                  ELSE [locals |-> [l2 EXCEPT !.new_table_schema = g.outcome.value],
                        schema_obj |-> g.custom_schema, outcome |-> Running]
             ELSE [locals |-> l2, schema_obj |-> obj, outcome |-> Running]
        ELSE [locals |-> l2, schema_obj |-> obj,
              outcome |-> Raise("ValueError", WriteLine(b, 246))]

\* A policy whose truncate branch forgets to ask whether the table exists
Disposition_TruncateAnyTable(insert_type, table_already_exists) ==
    IF insert_type = S_append /\ table_already_exists THEN "WRITE_APPEND"
    ELSE IF insert_type = S_truncate THEN "WRITE_TRUNCATE"
    ELSE "WRITE_EMPTY"

\* A policy whose append branch forgets to ask whether the table exists
Disposition_AppendAnyTable(insert_type, table_already_exists) ==
    IF insert_type = S_append THEN "WRITE_APPEND"
    ELSE IF insert_type = S_truncate /\ table_already_exists THEN "WRITE_TRUNCATE"
    ELSE "WRITE_EMPTY"

\* A policy whose truncate branch creates the table anew
Disposition_TruncateCreates(insert_type, table_already_exists) ==
    IF insert_type = S_append /\ table_already_exists THEN "WRITE_APPEND"
    ELSE "WRITE_EMPTY"

\* Lines 274-282: the write disposition
Disposition(insert_type, table_already_exists) ==
    IF insert_type = S_append /\ table_already_exists THEN "WRITE_APPEND"
    ELSE IF insert_type = S_truncate /\ table_already_exists THEN "WRITE_TRUNCATE"
    ELSE "WRITE_EMPTY"

\* Line 251: the value written into the system column is a pd.Timestamp
SystemValueType == Upper(S_timestamp)

\* dataframe[col] = value: the column is added unless the frame has it
SetColumn(df, col) ==
    IF InSeq(col, df.columns) THEN df ELSE [df EXCEPT !.columns = Append(@, col)]

\* Lines 248-282: the system column and the job configuration.  Gives the
\* DataFrame and the locals as the statements leave them, and either the
\* exception raised or the configuration of the load.
PrepareLoad(b, a, l, df) ==
    LET created_at_col == S_bq_created_at
        created_at_schema ==
            [name |-> created_at_col, field_type |-> S_timestamp, mode |-> S_required,
             description |-> S_desc_added]
        populated == df.rows > 0
        df2 == IF populated THEN SetColumn(df, created_at_col) ELSE df
        \* list.append returns None; a tuple has no append
        l2 == IF ~populated /\ l.new_table_schema.type = "list"
              THEN [l EXCEPT !.new_table_schema.items = Append(@, created_at_schema)]
              ELSE l
        output_schema == IF populated THEN Some(l.new_table_schema) ELSE None
    IN  IF ~populated /\ l.new_table_schema.type = "tuple"
        THEN [dataframe |-> df2, locals |-> l2,
              outcome |-> Raise("AttributeError", WriteLine(b, 260))]
        ELSE IF ~Bound(ClientModule(b), "bigquery")
        THEN [dataframe |-> df2, locals |-> l2,
              outcome |-> Raise("NameError", WriteLine(b, 263))]
        ELSE [dataframe |-> df2, locals |-> l2, outcome |-> Running,
              job_config |->
                [write_disposition |-> Disposition(l.insert_type, l.table_already_exists),
                 allow_jagged_rows |-> IF a.accept_incomplete_schema THEN Some(TRUE) ELSE None,
                 ignore_unknown_values |-> Some(TRUE),
                 autodetect |-> IF IsNone(a.custom_table_schema) THEN Some(TRUE) ELSE None,
                 schema |-> IF IsNone(a.custom_table_schema) THEN None ELSE output_schema]]

\* The load job as load_table_from_dataframe returns it
SubmittedJob == [state |-> "RUNNING", job_type |-> "load", error_result |-> None, errors |-> <<>>]

\* The error lists of a failed job: error_result is the first of errors
LoadErrors == {<<"duplicate">>, <<"invalid", "stopped">>}

\* The job when the warehouse has finished it, with the errors it reports
FinishedJob(j, errors) ==
    [j EXCEPT !.state = "DONE",
              !.error_result = IF errors = <<>> THEN None ELSE Some(errors[1]),
              !.errors = errors]

\* What load_job.result() returns
LoadResponse == [type |-> "LoadJob", state |-> "DONE"]

\* an exception raised with an argument
RaiseWith(exc, line, payload) == [kind |-> "raise", exc |-> exc, line |-> line, args |-> payload]

\* A write that returns the response whatever the job reports
LoadOutcome_ErrorsIgnored(b, j, result_raises) == Return(LoadResponse)

\* Lines 289-295 for the finished job j: result() of a failed job either
\* raises the job's error or returns, and then lines 292-293 raise
\* RuntimeError(load_job.errors)
LoadOutcome(b, j, result_raises) ==
    IF IsNone(j.error_result) THEN Return(LoadResponse)
    ELSE IF result_raises
    THEN RaiseWith("GoogleAPICallError", WriteLine(b, 290), <<Val(j.error_result)>>)
    ELSE RaiseWith("RuntimeError", WriteLine(b, 293), j.errors)

\* What the warehouse can make of a load job on a table in state t: a load
\* with WRITE_EMPTY into a table that holds data fails; any load can fail.
JobResults(t, disposition) ==
    {"error"} \cup (IF disposition = "WRITE_EMPTY" /\ t = "populated" THEN {} ELSE {"ok"})

\* The destination table after a successful load of the given rows
TableAfter(t, disposition, rows) ==
    IF rows > 0 THEN "populated"
    ELSE IF disposition = "WRITE_APPEND" /\ t = "populated" THEN "populated"
    ELSE "empty"

----------------------------------------------------------------------------
(* fetch_table_data, fetch_sql_output, list_tables_in_dataset *)

\* Bounds: the largest number_of_rows a caller asks for, and the most rows
\* the table holds
MaxLimit == 10
MaxTableRows == 2

S_star == <<"*">>
S_select == <<"S","E","L","E","C","T"," ">>
S_select_star == <<"S","E","L","E","C","T"," ","*"," ">>
S_from == <<"F","R","O","M"," ">>
S_where == <<"w","h","e","r","e">>
S_WHERE_ == <<"W","H","E","R","E"," ">>
S_LIMIT_ == <<" ","L","I","M","I","T"," ">>
S_amount == <<"a","m","o","u","n","t">>
S_public == <<"p","u","b","l","i","c">>

\* str(n) for an integer n: the decimal digits, with a minus sign when negative
Digits == <<"0","1","2","3","4","5","6","7","8","9">>
RECURSIVE NatStr(_)
NatStr(n) == IF n < 10 THEN <<Digits[n + 1]>> ELSE NatStr(n \div 10) \o <<Digits[(n % 10) + 1]>>
IntStr(n) == IF n < 0 THEN <<"-">> \o NatStr(0 - n) ELSE NatStr(n)

\* The fields argument: a str, or a tuple of str
PyStr(s) == [type |-> "str", value |-> s]
PyTuple(t) == [type |-> "tuple", items |-> t]

\* sep.join(items)
RECURSIVE Join(_, _)
Join(sep, items) ==
    IF items = <<>> THEN <<>>
    ELSE IF Len(items) = 1 THEN items[1]
    ELSE items[1] \o sep \o Join(sep, Tail(items))

\* repr of a str without quotes or backslashes in it, and str() of a tuple of
\* such: ('a', 'b'), ('a',), ()
ReprStr(s) == <<"'">> \o s \o <<"'">>
ReprTuple(t) ==
    IF Len(t) = 1 THEN <<"(">> \o ReprStr(t[1]) \o <<",", ")">>
    ELSE <<"(">> \o Join(<<",", " ">>, [i \in 1..Len(t) |-> ReprStr(t[i])]) \o <<")">>

\* '{}'.format(v)
Format(v) == IF v.type = "str" THEN v.value ELSE ReprTuple(v.items)

\* Lines 122-125 (snowflake.py 256-259): the select list
SelectClause(fields) ==
    IF fields.type = "tuple" /\ Len(fields.items) > 1
    THEN IF fields = PyStr(S_star) THEN S_select_star
         ELSE S_select \o Join(<<",", " ">>, fields.items) \o <<" ">>
    ELSE IF fields = PyStr(S_star) THEN S_select_star
         ELSE S_select \o Format(fields) \o <<" ">>

\* Line 127 (snowflake.py 261)
FromClause(dataset, tbl) == S_from \o dataset \o <<".">> \o tbl \o <<" ">>

\* A limit that treats 1 as 'no limit'
LimitClause_FromTwo(number_of_rows) ==
    IF number_of_rows < 2 THEN <<>> ELSE S_LIMIT_ \o IntStr(number_of_rows)

\* Line 128 (snowflake.py 262)
LimitClause(number_of_rows) ==
    IF number_of_rows < 1 THEN <<>> ELSE S_LIMIT_ \o IntStr(number_of_rows)

\* s[:n]
Prefix(s, n) == SubSeq(s, 1, IF Len(s) < n THEN Len(s) ELSE n)

\* Lines 130-133 (snowflake.py 264-267): the first four characters of the
\* fragment are compared with the five-letter word
WhereClause(where_clause) ==
    IF Lower(Prefix(where_clause, 4)) = S_where
    THEN where_clause \o <<" ">>
    ELSE S_WHERE_ \o where_clause \o <<" ">>

\* Line 135 (snowflake.py 269)
FetchTableSql(dataset, tbl, fields, where_clause, number_of_rows) ==
    SelectClause(fields) \o FromClause(dataset, tbl) \o WhereClause(where_clause)
        \o LimitClause(number_of_rows)

\* The fields a caller asks for: '*', one name, a list written as one str,
\* and tuples of 0..MaxFields names
MaxFields == 2
FieldNames == {S_id, S_amount}
FetchFields ==
    {PyStr(S_star), PyStr(S_id), PyStr(S_id \o <<",", " ">> \o S_amount)}
        \cup {PyTuple(t) : t \in UNION {[1..n -> FieldNames] : n \in 0..MaxFields}}

\* Where-clause fragments: the default, fragments that begin with the
\* keyword in three letter cases, one that does not, and short ones
S_cond == <<"i","d"," ","="," ","1">>
WhereClauses ==
    {<<"1"," ","="," ","1">>, S_cond, S_where \o <<" ">> \o S_cond, Upper(S_where) \o <<" ">> \o S_cond,
     <<"W">> \o Tail(S_where) \o <<" ">> \o S_cond, Prefix(S_where, 4), <<>>}

FetchArgs ==
    [table : {S_sales}, fields : FetchFields, where_clause : WhereClauses,
     number_of_rows : (0 - 1)..MaxLimit]

\* The dataset / schema argument's default (core.py 109, snowflake.py 243)
DefaultDataset(b) == IF b = "bigquery" THEN S_analytics ELSE S_public

\* How the warehouse reads the row cap of a statement: the number after a
\* trailing ' LIMIT ', if the statement ends with one
IsDigit(c) == \E i \in 1..10 : Digits[i] = c
RECURSIVE DigitRun(_)
DigitRun(s) == IF s # <<>> /\ IsDigit(s[Len(s)]) THEN 1 + DigitRun(SubSeq(s, 1, Len(s) - 1)) ELSE 0
DigitValue(c) == (CHOOSE i \in 1..10 : Digits[i] = c) - 1
RECURSIVE ParseNat(_)
ParseNat(s) ==
    IF s = <<>> THEN 0 ELSE 10 * ParseNat(SubSeq(s, 1, Len(s) - 1)) + DigitValue(s[Len(s)])
EndsWith(s, suffix) ==
    Len(s) >= Len(suffix) /\ SubSeq(s, Len(s) - Len(suffix) + 1, Len(s)) = suffix
ParseLimit(sql) ==
    LET k == DigitRun(sql)
        head == SubSeq(sql, 1, Len(sql) - k)
    IN  IF k > 0 /\ EndsWith(head, S_LIMIT_)
        THEN Some(ParseNat(SubSeq(sql, Len(sql) - k + 1, Len(sql))))
        ELSE None

\* What the warehouse can answer to a SELECT on the table in state t: the
\* rows (capped by the statement's LIMIT), 'not found' for an absent table,
\* or another failure (an invalid request, a refused one)
ErrorClass(b, condition) ==
    IF b = "snowflake" THEN "ProgrammingError"
    ELSE IF condition = "not_found" THEN "NotFound"
    ELSE IF condition = "bad_request" THEN "BadRequest"
    ELSE "Forbidden"
QueryError(b, condition) == [kind |-> "raise", exc |-> ErrorClass(b, condition), condition |-> condition]
RowsHeld(t) == IF t = "populated" THEN 1..MaxTableRows ELSE {0}
Capped(n, limit) == IF ~IsNone(limit) /\ Val(limit) < n THEN Val(limit) ELSE n
QueryResponses(b, t, sql) ==
    {QueryError(b, "bad_request"), QueryError(b, "forbidden")}
        \cup (IF t = "absent" THEN {QueryError(b, "not_found")}
              ELSE {[kind |-> "return", value |-> [type |-> "rows", count |-> Capped(n, ParseLimit(sql))]]
                        : n \in RowsHeld(t)})

\* snowflake.connector.errors.Error is the base class of the connector's errors
IsSnowflakeError(exc) == exc = "ProgrammingError"

\* exit(1): SystemExit whose code is 1
Exit1(line) == RaiseExit(Some(1), line)

\* The except clauses of a read: core.py turns NotFound into RuntimeError and
\* BadRequest into ValueError (the raise statements at the given lines) and
\* lets anything else pass from the line of the request; snowflake.py calls
\* exit(1) for any connector error
ReadOutcome(b, resp, l) ==
    IF resp.kind = "return" THEN Return([type |-> "DataFrame", rows |-> resp.value.count])
    ELSE IF b = "bigquery"
    THEN IF resp.exc = "NotFound" THEN Raise("RuntimeError", l.not_found)
         ELSE IF resp.exc = "BadRequest" THEN Raise("ValueError", l.bad_request)
         ELSE Raise(resp.exc, l.request)
    ELSE IF IsSnowflakeError(resp.exc) THEN Exit1(l.exit)
    ELSE Raise(resp.exc, l.request)

\* the lines of the request, of the two raise statements of core.py, and of
\* exit(1) in snowflake.py
FetchTableDataLines(b) ==
    [request |-> IF b = "bigquery" THEN 137 ELSE 271, not_found |-> 145,
     bad_request |-> 149, exit |-> 279]
FetchSqlOutputLines(b) ==
    [request |-> IF b = "bigquery" THEN 161 ELSE 290, not_found |-> 168,
     bad_request |-> 173, exit |-> 297]

\* The statements handed to fetch_sql_output
SqlStatements ==
    {FetchTableSql(S_analytics, S_sales, PyStr(S_star), S_cond, n) : n \in {0, 1}}

\* Lines 52-55 of core.py
ListTablesSql(dataset) ==
    <<"\n"," "," "," "," "," "," "," "," "," "," "," "," ","S","E","L","E","C","T"," ","t","a","b","l","e","_","n","a","m","e","\n"," "," "," "," "," "," "," "," "," "," "," "," ","F","R","O","M"," "," "," ">> \o dataset
        \o <<".","I","N","F","O","R","M","A","T","I","O","N","_","S","C","H","E","M","A",".","T","A","B","L","E","S","\n"," "," "," "," "," "," "," "," ">>

\* The answer to the information-schema query: the table names of the
\* dataset, 'not found' when the dataset is missing, or another failure
ListTablesResponses(t) ==
    {QueryError("bigquery", c) : c \in {"not_found", "bad_request", "forbidden"}}
        \cup {[kind |-> "return",
               value |-> [type |-> "names",
                          items |-> IF t = "absent" THEN <<>> ELSE <<S_sales>>]]}

\* Lines 58-76 of core.py
ListTablesOutcome(resp) ==
    IF resp.kind = "return" THEN Return([type |-> "list", items |-> resp.value.items])
    ELSE IF resp.exc = "NotFound" THEN Raise("RuntimeError", 71)
    ELSE IF resp.exc = "BadRequest" THEN Raise("ValueError", 75)
    ELSE Raise(resp.exc, 59)

----------------------------------------------------------------------------
(* get_table_schema *)

\* Bound: the most columns of the table whose schema is asked for
MaxColumns == 2

S_YES == <<"Y","E","S">>
S_NO == <<"N","O">>
S_yes == <<"y","e","s">>
S_FLOAT64 == <<"F","L","O","A","T","6","4">>

\* The rows of the metadata query as result_df.to_dict(orient='records')
\* gives them: one dict per column, keyed by the names of the SELECT list
MetadataRows ==
    [column_name : {S_id, S_amount}, data_type : {S_STRING, S_FLOAT64},
     is_nullable : {S_YES, S_NO, S_yes}, description : {S_note}]
MetadataResponses ==
    {[kind |-> "raise", exc |-> "NotFound"]}
        \cup {[kind |-> "return", value |-> [type |-> "records", items |-> r]]
                : r \in UNION {[1..n -> MetadataRows] : n \in 0..MaxColumns}}

\* column.pop(key): the dict without the key
DictPop(d, key) == [k \in DOMAIN d \ {key} |-> d[k]]

\* A translation that keeps the warehouse's meaning of the flag
ModeOf_NotInverted(is_nullable) == IF is_nullable = S_YES THEN S_NULLABLE ELSE S_REQUIRED

\* Lines 100-103 (snowflake.py 234-237)
ModeOf(is_nullable) == IF is_nullable = S_YES THEN S_REQUIRED ELSE S_NULLABLE

\* Lines 98-104 (snowflake.py 232-238): one pass of the loop over a column
TranslateColumn(column) ==
    LET c1 == DictSet(DictPop(column, "column_name"), "name", column["column_name"])
        c2 == DictSet(DictPop(c1, "data_type"), "field_type", c1["data_type"])
        c3 == DictSet(c2, "mode", ModeOf(c2["is_nullable"]))
    IN  DictPop(c3, "is_nullable")

\* Lines 93-106 (snowflake.py 227-240): the request has no except clause
GetTableSchemaOutcome(b, resp) ==
    IF resp.kind = "raise" THEN Raise(resp.exc, IF b = "bigquery" THEN 93 ELSE 227)
    ELSE Return([type |-> "list",
                 items |-> [i \in 1..Len(resp.value.items) |->
                                TranslateColumn(resp.value.items[i])]])

----------------------------------------------------------------------------
(* SnowflakeClient: construction and the scope of a with statement *)

S_KEY_PAIR == <<"K","E","Y","_","P","A","I","R">>
S_USER_LOGIN == <<"U","S","E","R","_","L","O","G","I","N">>
S_TOKEN == <<"t","o","k","e","n">>
S_me == <<"m","e">>

\* authentication_method and authentication_params as callers pass them
AuthMethods == {S_KEY_PAIR, Lower(S_KEY_PAIR), S_USER_LOGIN, S_TOKEN}
AuthParams ==
    {None, Some(<<>>), Some([user |-> S_me]),
     Some([user |-> S_me, rsa_key_path |-> S_me]),
     Some([user |-> S_me, rsa_key_path |-> S_me, private_passphrase |-> S_me]),
     Some([user |-> <<>>, password |-> S_me]),
     Some([user |-> S_me, password |-> S_me])}

\* not d.get(key)
NotGet(d, key) == key \notin DOMAIN d \/ d[key] = <<>>

\* Lines 68-90: _validate_params; connection_details is not given
ValidateParams(method, authentication_params) ==
    IF IsNone(authentication_params) \/ Val(authentication_params) = <<>>
    THEN Exit1(85)
    ELSE LET p == Val(authentication_params) IN
         IF method = S_KEY_PAIR /\ (NotGet(p, "user") \/ NotGet(p, "rsa_key_path"))
         THEN Exit1(76)
         ELSE IF method = S_USER_LOGIN /\ (NotGet(p, "user") \/ NotGet(p, "password"))
         THEN Exit1(82)
         ELSE Return([type |-> "dict", value |-> p])

\* What the account can answer while the client is built: connect() succeeds
\* or fails, then cursor(), then check_can_use_pandas()
ConnectResults == [connect : {"ok", "fails"}, cursor : {"ok", "fails"}, pandas : {"ok", "fails"}]

\* Lines 41-57: __init__.  Gives the connection and cursor as the statements
\* leave them and the exception raised, if any.
ConstructClient(authentication_method, authentication_params, env) ==
    LET method == Upper(authentication_method)
        v == ValidateParams(method, authentication_params)
        opened == [connection |-> "open", cursor |-> "none"]
    IN  IF v.kind = "raise" THEN [client |-> NoClient, outcome |-> v]
        ELSE IF method \notin {S_KEY_PAIR, S_USER_LOGIN}
        THEN [client |-> NoClient, outcome |-> Exit1(54)]
        ELSE IF method = S_KEY_PAIR /\ "private_passphrase" \notin DOMAIN v.value.value
        THEN \* private_passphrase defaults to None, and None has no encode
             [client |-> NoClient, outcome |-> Raise("AttributeError", 98)]
        ELSE IF env.connect = "fails"
        THEN [client |-> NoClient,
              outcome |-> Raise("DatabaseError", IF method = S_KEY_PAIR THEN 108 ELSE 118)]
        ELSE IF env.cursor = "fails"
        THEN [client |-> opened, outcome |-> Raise("Error", 56)]
        ELSE IF env.pandas = "fails"
        THEN [client |-> [opened EXCEPT !.cursor = "open"],
              outcome |-> Raise("ProgrammingError", 57)]
        ELSE [client |-> [opened EXCEPT !.cursor = "open"], outcome |-> Running]

\* How the body of the with statement can end: normally, with an exception,
\* or with exit(1) as in fetch_table_data
BodyOutcomes == {Return([type |-> "NoneType"]), Raise("KeyError", 0), Exit1(279)}

\* Lines 62-66: __exit__ returns None, so the body's exception goes on to the
\* caller unless a close() raises one of its own
ExitClient(c, body, cursor_close, client_close) ==
    IF c.cursor = "open" /\ cursor_close = "fails"
    THEN [client |-> c, outcome |-> Raise("Error", 64)]
    ELSE LET c2 == IF c.cursor = "open" THEN [c EXCEPT !.cursor = "closed"] ELSE c IN
         IF c2.connection = "open" /\ client_close = "fails"
         THEN [client |-> c2, outcome |-> Raise("Error", 66)]
         ELSE [client |-> IF c2.connection = "open"
                          THEN [c2 EXCEPT !.connection = "closed"] ELSE c2,
               outcome |-> body]

----------------------------------------------------------------------------
(* Actions *)

\* A caller enters write_to_bigquery / insert_into_table: lines 217-226 run
WriteCall ==
    /\ pc = "idle"
    /\ \E b \in Backends, a \in WriteArgs, df \in DataFrames :
        /\ LET v == Validate(b, a) IN
            /\ locals' = v.locals
            /\ outcome' = v.outcome
            /\ pc' = IF v.outcome.kind = "raise" THEN "done" ELSE "exists_check"
        /\ backend' = b
        /\ args' = a
        /\ dataframe' = df
        /\ schema_obj' = a.custom_table_schema
    /\ op' = "write"
    /\ UNCHANGED <<table, wh_calls, loads, job, writers, client>>

\* Lines 228-246: does_table_exist asks the warehouse, then the missing-table
\* policy and, for a table to create with a custom schema, get_detected_schema
ExistenceCheck ==
    /\ pc = "exists_check"
    /\ \E resp \in ExistsResponses(backend, table) :
        LET r == DoesTableExist(backend, resp) IN
        /\ wh_calls' = Append(wh_calls, [request |-> "exists", response |-> resp, result |-> r])
        /\ IF r.kind = "raise"
           THEN /\ outcome' = r
                /\ pc' = "done"
                /\ UNCHANGED <<locals, schema_obj>>
           ELSE LET c == CheckDestination(backend, args, locals, schema_obj, r.value) IN
                /\ locals' = c.locals
                /\ schema_obj' = c.schema_obj
                /\ outcome' = c.outcome
                /\ pc' = IF c.outcome.kind = "raise" THEN "done" ELSE "submit"
    /\ UNCHANGED <<table, op, backend, args, dataframe, loads, job, writers, client>>

\* Lines 248-287: the system column, the job configuration, and the load
\* submitted with load_table_from_dataframe
SubmitLoad ==
    /\ pc = "submit"
    /\ LET p == PrepareLoad(backend, args, locals, dataframe) IN
        /\ dataframe' = p.dataframe
        /\ locals' = p.locals
        /\ IF p.outcome.kind = "raise"
           THEN /\ outcome' = p.outcome
                /\ pc' = "done"
                /\ UNCHANGED <<wh_calls, loads, job>>
           ELSE /\ wh_calls' = Append(wh_calls, [request |-> "load"])
                /\ loads' = Append(loads,
                        [table_id |-> DESTINATION_DATASET \o <<".">> \o locals.destination_table,
                         rows |-> p.dataframe.rows,
                         columns |-> p.dataframe.columns,
                         job_config |-> p.job_config])
                /\ job' = SubmittedJob
                /\ pc' = "wait"
                /\ UNCHANGED outcome
    /\ UNCHANGED <<table, op, backend, args, schema_obj, writers, client>>

\* Lines 289-295: load_job.result() waits for the warehouse to finish the job;
\* a failed job either makes result() raise or leaves error_result for line 292
LoadResult ==
    /\ pc = "wait"
    /\ LET load == loads[Len(loads)] IN
       \E res \in JobResults(table, load.job_config.write_disposition) :
       \E errors \in (IF res = "ok" THEN {<<>>} ELSE LoadErrors) :
       \E result_raises \in (IF res = "ok" THEN {FALSE} ELSE BOOLEAN) :
        /\ table' = IF res = "ok"
                    THEN TableAfter(table, load.job_config.write_disposition, load.rows)
                    ELSE table
        /\ job' = FinishedJob(job, errors)
        /\ outcome' = LoadOutcome(backend, FinishedJob(job, errors), result_raises)
    /\ pc' = "done"
    /\ UNCHANGED <<op, backend, args, dataframe, schema_obj, locals, wh_calls, loads, writers, client>>

\* get_detected_schema called on its own
CallGetDetectedSchema ==
    /\ pc = "idle"
    /\ \E b \in Backends, custom_schema \in Schemas :
        /\ LET g == GetDetectedSchema(b, custom_schema) IN
            /\ outcome' = g.outcome
            /\ schema_obj' = g.custom_schema
        /\ backend' = b
        /\ args' = [custom_schema |-> custom_schema]
    /\ op' = "get_detected_schema"
    /\ pc' = "done"
    /\ UNCHANGED <<table, dataframe, locals, wh_calls, loads, job, writers, client>>

\* does_table_exist called on its own
CallDoesTableExist ==
    /\ pc = "idle"
    /\ \E b \in Backends :
       \E resp \in ExistsResponses(b, table) :
        /\ outcome' = DoesTableExist(b, resp)
        /\ wh_calls' = Append(wh_calls, [request |-> "exists", response |-> resp,
                                         result |-> DoesTableExist(b, resp)])
        /\ backend' = b
        /\ args' = [table |-> S_sales]
    /\ op' = "does_table_exist"
    /\ pc' = "done"
    /\ UNCHANGED <<table, dataframe, schema_obj, locals, loads, job, writers, client>>

\* The call is over: the caller has its result and may call again
Finish ==
    /\ pc = "done"
    /\ pc' = "idle"
    /\ op' = "none"
    /\ backend' = "none"
    /\ args' = NoArgs
    /\ dataframe' = NoFrame
    /\ schema_obj' = None
    /\ locals' = NoLocals
    /\ wh_calls' = <<>>
    /\ loads' = <<>>
    /\ job' = NoJob
    /\ outcome' = Running
    /\ client' = NoClient
    /\ UNCHANGED <<table, writers>>

\* fetch_table_data (core.py 108-150, snowflake.py 242-279): the statement is
\* built, the request is made once, and the except clauses decide the outcome
FetchTableData ==
    /\ pc = "idle"
    /\ \E b \in Backends, a \in FetchArgs :
        LET sql == FetchTableSql(DefaultDataset(b), a.table, a.fields, a.where_clause,
                                 a.number_of_rows)
        IN  \E resp \in QueryResponses(b, table, sql) :
                /\ wh_calls' = <<[request |-> "query", sql |-> sql, response |-> resp]>>
                /\ outcome' = ReadOutcome(b, resp, FetchTableDataLines(b))
                /\ backend' = b
                /\ args' = a
    /\ op' = "fetch_table_data"
    /\ pc' = "done"
    /\ UNCHANGED <<table, dataframe, schema_obj, locals, loads, job, writers, client>>

\* fetch_sql_output (core.py 152-173, snowflake.py 281-297)
FetchSqlOutput ==
    /\ pc = "idle"
    /\ \E b \in Backends, sql \in SqlStatements :
       \E resp \in QueryResponses(b, table, sql) :
        /\ wh_calls' = <<[request |-> "query", sql |-> sql, response |-> resp]>>
        /\ outcome' = ReadOutcome(b, resp, FetchSqlOutputLines(b))
        /\ backend' = b
        /\ args' = [sql_select_statement |-> sql]
    /\ op' = "fetch_sql_output"
    /\ pc' = "done"
    /\ UNCHANGED <<table, dataframe, schema_obj, locals, loads, job, writers, client>>

\* list_tables_in_dataset (core.py 50-76)
ListTablesInDataset ==
    /\ pc = "idle"
    /\ \E dataset \in {S_analytics} :
       \E resp \in ListTablesResponses(table) :
        /\ wh_calls' = <<[request |-> "query", sql |-> ListTablesSql(dataset), response |-> resp]>>
        /\ outcome' = ListTablesOutcome(resp)
        /\ args' = [dataset |-> dataset]
    /\ backend' = "bigquery"
    /\ op' = "list_tables_in_dataset"
    /\ pc' = "done"
    /\ UNCHANGED <<table, dataframe, schema_obj, locals, loads, job, writers, client>>

\* get_table_schema (core.py 78-106, snowflake.py 212-240)
GetTableSchema ==
    /\ pc = "idle"
    /\ \E b \in Backends, resp \in MetadataResponses :
        /\ wh_calls' = <<[request |-> "query", response |-> resp]>>
        /\ outcome' = GetTableSchemaOutcome(b, resp)
        /\ backend' = b
        /\ args' = [dataset |-> DefaultDataset(b), table |-> S_sales]
    /\ op' = "get_table_schema"
    /\ pc' = "done"
    /\ UNCHANGED <<table, dataframe, schema_obj, locals, loads, job, writers, client>>

\* with SnowflakeClient(...) as client: the object is built (lines 41-57) and
\* __enter__ returns it; when __init__ raises the scope is never entered
SnowflakeConstruct ==
    /\ pc = "idle"
    /\ \E method \in AuthMethods, params \in AuthParams, env \in ConnectResults :
        LET k == ConstructClient(method, params, env) IN
        /\ client' = k.client
        /\ outcome' = k.outcome
        /\ pc' = IF k.outcome.kind = "raise" THEN "done" ELSE "scope"
        /\ args' = [authentication_method |-> method, authentication_params |-> params]
    /\ op' = "snowflake_client"
    /\ backend' = "snowflake"
    /\ UNCHANGED <<table, dataframe, schema_obj, locals, wh_calls, loads, job, writers>>

\* The body of the with statement ends
ScopeBody ==
    /\ pc = "scope"
    /\ \E body \in BodyOutcomes : outcome' = body
    /\ pc' = "exit"
    /\ UNCHANGED <<table, op, backend, args, dataframe, schema_obj, locals, wh_calls, loads,
                   job, writers, client>>

\* __exit__ (lines 62-66) runs on the way out of the scope
ScopeExit ==
    /\ pc = "exit"
    /\ \E cursor_close \in {"ok", "fails"}, client_close \in {"ok", "fails"} :
        LET x == ExitClient(client, outcome, cursor_close, client_close) IN
        /\ client' = x.client
        /\ outcome' = x.outcome
    /\ pc' = "done"
    /\ UNCHANGED <<table, op, backend, args, dataframe, schema_obj, locals, wh_calls, loads,
                   job, writers>>

Next ==
    \/ WriteCall
    \/ ExistenceCheck
    \/ SubmitLoad
    \/ LoadResult
    \/ CallGetDetectedSchema
    \/ CallDoesTableExist
    \/ FetchTableData
    \/ FetchSqlOutput
    \/ ListTablesInDataset
    \/ GetTableSchema
    \/ SnowflakeConstruct
    \/ ScopeBody
    \/ ScopeExit
    \/ Finish

Spec == Init /\ [][Next]_vars

----------------------------------------------------------------------------
(* Two write_to_bigquery calls at the same time on the same table *)

\* The arguments of the two callers: both insert types, with and without
\* permission to create, with and without a custom schema
RaceArgs ==
    [destination_table : {S_sales},
     insert_type : {S_append, S_truncate},
     accept_incomplete_schema : {FALSE},
     create_table_if_missing : BOOLEAN,
     custom_table_schema : {None, Some(<<Entry(Some(S_id), Some(S_string), None, None)>>)},
     accept_capital_letters : {FALSE}]

\* Lines 217-226 in the frame of writer w
RaceCall ==
    \E w \in Writers :
        /\ writers[w].pc = "idle"
        /\ \E a \in RaceArgs, df \in DataFrames :
            LET v == Validate("bigquery", a) IN
            writers' = [writers EXCEPT ![w] =
                [pc |-> IF v.outcome.kind = "raise" THEN "done" ELSE "exists_check",
                 args |-> a, dataframe |-> df, schema_obj |-> a.custom_table_schema,
                 locals |-> v.locals, job |-> NoJob, load |-> 0, outcome |-> v.outcome]]
        /\ UNCHANGED <<table, pc, op, backend, args, dataframe, schema_obj, locals,
                       wh_calls, loads, job, outcome, client>>

\* Lines 228-246 in the frame of writer w: the table as it is at this moment
RaceExistenceCheck ==
    \E w \in Writers :
        /\ writers[w].pc = "exists_check"
        /\ \E resp \in ExistsResponses("bigquery", table) :
            LET r == DoesTableExist("bigquery", resp)
                f == writers[w]
                c == CheckDestination("bigquery", f.args, f.locals, f.schema_obj, r.value)
            IN  /\ wh_calls' = Append(wh_calls, [request |-> "exists", response |-> resp,
                                                 result |-> r, writer |-> w])
                /\ writers' = [writers EXCEPT ![w] =
                        IF r.kind = "raise"
                        THEN [f EXCEPT !.outcome = r, !.pc = "done"]
                        ELSE [f EXCEPT !.locals = c.locals, !.schema_obj = c.schema_obj,
                                       !.outcome = c.outcome,
                                       !.pc = IF c.outcome.kind = "raise" THEN "done"
                                              ELSE "submit"]]
        /\ UNCHANGED <<table, pc, op, backend, args, dataframe, schema_obj, locals,
                       loads, job, outcome, client>>

\* Lines 248-287 in the frame of writer w
RaceSubmitLoad ==
    \E w \in Writers :
        /\ writers[w].pc = "submit"
        /\ LET f == writers[w]
               p == PrepareLoad("bigquery", f.args, f.locals, f.dataframe)
           IN  IF p.outcome.kind = "raise"
               THEN /\ writers' = [writers EXCEPT ![w] =
                            [f EXCEPT !.dataframe = p.dataframe, !.locals = p.locals,
                                      !.outcome = p.outcome, !.pc = "done"]]
                    /\ UNCHANGED <<wh_calls, loads>>
               ELSE /\ wh_calls' = Append(wh_calls, [request |-> "load", writer |-> w])
                    /\ loads' = Append(loads,
                            [table_id |-> DESTINATION_DATASET \o <<".">> \o f.locals.destination_table,
                             rows |-> p.dataframe.rows,
                             columns |-> p.dataframe.columns,
                             job_config |-> p.job_config,
                             writer |-> w])
                    /\ writers' = [writers EXCEPT ![w] =
                            [f EXCEPT !.dataframe = p.dataframe, !.locals = p.locals,
                                      !.job = SubmittedJob,
                                      !.load = Len(loads) + 1,
                                      !.pc = "wait"]]
        /\ UNCHANGED <<table, pc, op, backend, args, dataframe, schema_obj, locals,
                       job, outcome, client>>

\* Lines 289-295 in the frame of writer w: the warehouse finishes w's job
RaceLoadResult ==
    \E w \in Writers :
        /\ writers[w].pc = "wait"
        /\ LET f == writers[w]
               load == loads[f.load]
           IN  \E res \in JobResults(table, load.job_config.write_disposition) :
               \E errors \in (IF res = "ok" THEN {<<>>} ELSE LoadErrors) :
               \E result_raises \in (IF res = "ok" THEN {FALSE} ELSE BOOLEAN) :
                /\ table' = IF res = "ok"
                            THEN TableAfter(table, load.job_config.write_disposition, load.rows)
                            ELSE table
                /\ writers' = [writers EXCEPT ![w] =
                        [f EXCEPT !.job = FinishedJob(f.job, errors),
                                  !.outcome = LoadOutcome("bigquery", FinishedJob(f.job, errors),
                                                          result_raises),
                                  !.pc = "done"]]
        /\ UNCHANGED <<pc, op, backend, args, dataframe, schema_obj, locals, wh_calls,
                       loads, job, outcome, client>>

RaceNext ==
    \/ RaceCall
    \/ RaceExistenceCheck
    \/ RaceSubmitLoad
    \/ RaceLoadResult

RaceSpec == Init /\ [][RaceNext]_vars

----------------------------------------------------------------------------
(* Properties *)

\* A write call is running or has just ended
InWrite == op = "write" /\ pc # "idle"

\* The running write call has asked the warehouse whether the table exists
\* and does_table_exist has returned
ExistenceKnown ==
    /\ InWrite
    /\ wh_calls # <<>>
    /\ wh_calls[1].request = "exists"
    /\ wh_calls[1].result.kind = "return"

\* ... and the value it returned makes "not does_table_exist(...)" true / false
ReportedMissing == ExistenceKnown /\ wh_calls[1].result.value # PyTrue
ReportedExisting == ExistenceKnown /\ wh_calls[1].result.value = PyTrue

\* The insert_type argument, trimmed and compared without regard to case
InsertTypeWord == Lower(Strip(args.insert_type))

\* The call failed with the exception class at the line of write_to_bigquery
\* (the same statement of insert_into_table)
FailedAt(exc, line) ==
    pc = "done" /\ outcome = Raise(exc, WriteLine(backend, line))

(* C1: a write call whose insert_type, trimmed and lower-cased, is neither
   'append' nor 'truncate' ends with the ValueError of line 225 before any
   existence check or load was issued; an insert_type that is one of the two
   words in any letter case and padding never meets that error. *)
C1_InsertTypeValidatedFirst ==
    InWrite =>
        IF InsertTypeWord \in {S_append, S_truncate}
        THEN ~(outcome.kind = "raise" /\ outcome.line = WriteLine(backend, 225))
        ELSE FailedAt("ValueError", 225) /\ wh_calls = <<>> /\ loads = <<>>

\* a word that is not accepted was rejected before any warehouse request
C1_Witness ==
    /\ InWrite
    /\ FailedAt("ValueError", 225)
    /\ wh_calls = <<>>
    /\ args.insert_type = S_delete

(* C2: when the existence check reports the table missing and
   create_table_if_missing is false, the write call ends with the
   ValueError of line 246 and has submitted no load. *)
C2_MissingTableRejected ==
    (ReportedMissing /\ ~args.create_table_if_missing) =>
        FailedAt("ValueError", 246) /\ loads = <<>>

C2_Witness ==
    /\ ReportedMissing
    /\ ~args.create_table_if_missing
    /\ FailedAt("ValueError", 246)
    /\ Len(wh_calls) = 1

\* A custom schema the resolver is meant to accept: given, every entry with
\* a name and a field_type, none named as the system column in any letter case
ValidSchema(cs) ==
    /\ ~IsNone(cs)
    /\ \A i \in 1..Len(Val(cs)) :
        /\ {"name", "field_type"} \subseteq DOMAIN Val(cs)[i]
        /\ Lower(Val(cs)[i]["name"]) # S_created_at

\* items are the columns of the entries, in order, followed by the system column
ColumnsThenSystemColumn(items, entries) ==
    /\ Len(items) = Len(entries) + 1
    /\ \A i \in 1..Len(entries) : items[i].name = Lower(entries[i]["name"])
    /\ items[Len(items)].name = S_created_at

(* C3: a write call that finds the table missing, with
   create_table_if_missing true and a valid custom schema (here: of at least
   one entry), submits exactly one load whatever the row count of the
   DataFrame, with disposition WRITE_EMPTY and with the resolved schema (the
   caller's columns, then the system column) attached. *)
C3_CreateLoadsResolvedSchema ==
    (/\ InWrite /\ pc = "done"
     /\ ReportedMissing
     /\ args.create_table_if_missing
     /\ ValidSchema(args.custom_table_schema)
     /\ Val(args.custom_table_schema) # <<>>)
    => /\ Len(loads) = 1
       /\ loads[1].job_config.write_disposition = "WRITE_EMPTY"
       /\ ~IsNone(loads[1].job_config.schema)
       /\ ColumnsThenSystemColumn(Val(loads[1].job_config.schema).items,
                                  Val(args.custom_table_schema))

\* the claim's case with a DataFrame that has rows: the load is submitted
C3_Witness ==
    /\ InWrite /\ pc = "done"
    /\ ReportedMissing
    /\ args.create_table_if_missing
    /\ ValidSchema(args.custom_table_schema)
    /\ dataframe.rows > 0
    /\ Len(loads) = 1
    /\ loads[1].job_config.write_disposition = "WRITE_EMPTY"
    /\ ColumnsThenSystemColumn(Val(loads[1].job_config.schema).items,
                               Val(args.custom_table_schema))

(* C4: every load a write call submits has the disposition of the policy
   table: WRITE_APPEND for append on an existing table, WRITE_TRUNCATE for
   truncate on an existing table, WRITE_EMPTY for either word on a missing
   table with create_table_if_missing; no other combination submits a load. *)
C4_DispositionPolicy ==
    InWrite =>
        \A i \in 1..Len(loads) :
            LET d == loads[i].job_config.write_disposition IN
            \/ ReportedExisting /\ InsertTypeWord = S_append /\ d = "WRITE_APPEND"
            \/ ReportedExisting /\ InsertTypeWord = S_truncate /\ d = "WRITE_TRUNCATE"
            \/ /\ ReportedMissing /\ args.create_table_if_missing
               /\ InsertTypeWord \in {S_append, S_truncate}
               /\ d = "WRITE_EMPTY"

\* truncate on a missing table that may be created: the load creates
C4_Witness ==
    /\ InWrite
    /\ ReportedMissing
    /\ InsertTypeWord = S_truncate
    /\ Len(loads) = 1
    /\ loads[1].job_config.write_disposition = "WRITE_EMPTY"

\* The call ended by insert_type validation, by the missing-table policy, by
\* schema validation, or by a failure of the existence request itself
Rejected ==
    /\ pc = "done"
    /\ outcome.kind = "raise"
    /\ \/ outcome = Raise("ValueError", WriteLine(backend, 225))
       \/ outcome = Raise("ValueError", WriteLine(backend, 246))
       \/ outcome.exc = "SystemExit"
       \/ (wh_calls # <<>> /\ wh_calls[1].result.kind = "raise")

(* C5: a write call (of write_to_bigquery, the code the claim cites) that is
   not rejected has, when it ends, submitted exactly one load, and that load
   has reached its completed state. *)
C5_OneLoadPerAcceptedCall ==
    (InWrite /\ backend = "bigquery" /\ pc = "done" /\ ~Rejected) =>
        Len(loads) = 1 /\ job.state = "DONE"

\* A custom schema the resolver is meant to refuse: an entry lacks name or
\* field_type, or is named as the system column in any letter case
HasEntryMissingKey(cs) ==
    /\ ~IsNone(cs)
    /\ \E i \in 1..Len(Val(cs)) : ~({"name", "field_type"} \subseteq DOMAIN Val(cs)[i])
HasReservedName(cs) ==
    /\ ~IsNone(cs)
    /\ \E i \in 1..Len(Val(cs)) :
        /\ "name" \in DOMAIN Val(cs)[i]
        /\ Lower(Val(cs)[i]["name"]) = S_created_at
InvalidSchema(cs) == HasEntryMissingKey(cs) \/ HasReservedName(cs)

\* The call ended with the resolver's report of a schema failure: sys.exit()
SchemaRejected == pc = "done" /\ outcome.kind = "raise" /\ outcome.exc = "SystemExit"

(* C6 as claimed: in a write call an invalid custom schema is rejected
   before any warehouse request: when the schema failure is reported no
   existence query and no load has been issued, and this whether or not the
   table exists, so a call with an invalid schema never submits a load. *)
C6_SchemaRejectedBeforeAnyRequest ==
    (InWrite /\ InvalidSchema(args.custom_table_schema)) =>
        /\ SchemaRejected => wh_calls = <<>>
        /\ loads = <<>>

(* C6 as amended: in a write call the custom schema is validated only after
   the existence query, and only when that query reported the table missing
   and create_table_if_missing is true: when the schema failure is reported
   exactly one request, the existence query, and no load has been issued; and
   an invalid schema in that case always ends the call with the schema
   failure. *)
C6_SchemaValidatedAfterExistenceCheck ==
    InWrite =>
        /\ SchemaRejected =>
            /\ Len(wh_calls) = 1
            /\ ReportedMissing
            /\ args.create_table_if_missing
            /\ loads = <<>>
        /\ (/\ InvalidSchema(args.custom_table_schema)
            /\ ReportedMissing
            /\ args.create_table_if_missing) => SchemaRejected

\* an invalid schema was refused, one existence query after the call began
C6_Witness ==
    /\ InWrite
    /\ InvalidSchema(args.custom_table_schema)
    /\ SchemaRejected
    /\ Len(wh_calls) = 1
    /\ wh_calls[1].request = "exists"

\* get_detected_schema, called on its own, has ended
Resolved == op = "get_detected_schema" /\ pc = "done"

(* C7: for a custom schema with an entry that lacks 'name' or 'field_type',
   get_detected_schema of either module ends with the schema failure
   (sys.exit), returns no schema, and has asked the warehouse nothing. *)
C7_MissingKeyRejected ==
    (Resolved /\ HasEntryMissingKey(args.custom_schema)) =>
        /\ outcome.kind = "raise"
        /\ outcome.exc = "SystemExit"
        /\ wh_calls = <<>>

\* the claim's case on helpers.py, where it holds
C7_Witness ==
    /\ Resolved
    /\ backend = "bigquery"
    /\ HasEntryMissingKey(args.custom_schema)
    /\ outcome = RaiseExit(None, 31)

(* C8: for a custom schema with a column named 'created_at' in any letter
   case, get_detected_schema of helpers.py ends with the schema failure and
   returns no schema. *)
C8_ReservedNameRejected ==
    (Resolved /\ backend = "bigquery" /\ HasReservedName(args.custom_schema)) =>
        outcome.kind = "raise" /\ outcome.exc = "SystemExit"

\* a name that is reserved only after lower-casing was refused at line 50
C8_Witness ==
    /\ Resolved
    /\ backend = "bigquery"
    /\ ~IsNone(args.custom_schema)
    /\ \E i \in 1..Len(Val(args.custom_schema)) :
        /\ "name" \in DOMAIN Val(args.custom_schema)[i]
        /\ Val(args.custom_schema)[i]["name"] = S_Created_At
    /\ outcome = RaiseExit(None, 50)

\* The resolved schema for the entries: one column more, the entries' columns
\* in order, and last the system column, REQUIRED
ResolvedFor(result, entries) ==
    /\ result.kind = "return"
    /\ ColumnsThenSystemColumn(result.value.items, entries)
    /\ result.value.items[Len(entries) + 1].mode = S_REQUIRED

(* C9: for every valid custom schema, the one with zero entries included,
   get_detected_schema of helpers.py returns input count + 1 columns, in the
   input's order, the last one the system column, REQUIRED. *)
C9_ValidSchemaResolved ==
    (Resolved /\ backend = "bigquery" /\ ValidSchema(args.custom_schema)) =>
        ResolvedFor(outcome, Val(args.custom_schema))

\* the claim's case where it holds: two valid entries resolved to three columns
C9_Witness ==
    /\ Resolved
    /\ backend = "bigquery"
    /\ ValidSchema(args.custom_schema)
    /\ Len(Val(args.custom_schema)) = 2
    /\ outcome.kind = "return"
    /\ Len(outcome.value.items) = 3

(* C10: does_table_exist of either module, when it returns, returns True if
   and only if the table is in the warehouse: False for an absent table, True
   for a present one. *)
C10_ExistsIffPresent ==
    (op = "does_table_exist" /\ pc = "done" /\ outcome.kind = "return") =>
        outcome.value = (IF table = "absent" THEN PyFalse ELSE PyTrue)

\* the claim's case on helpers.py, where it holds: False for an absent table
C10_Witness ==
    /\ op = "does_table_exist" /\ pc = "done"
    /\ backend = "bigquery"
    /\ table = "absent"
    /\ outcome = Return(PyFalse)

\* does_table_exist, called on its own, has ended; what the warehouse answered
ExistenceAsked == op = "does_table_exist" /\ pc = "done"
Answer == wh_calls[1].response

\* The warehouse's 'not found' condition: NotFound raised by get_table, or a
\* count of zero from the information schema
AnsweredNotFound ==
    IF backend = "bigquery"
    THEN Answer.kind = "raise" /\ Answer.exc = "NotFound"
    ELSE Answer.kind = "return" /\ Answer.value.items = <<0>>

\* Any other error of the backend
AnsweredOtherError ==
    Answer.kind = "raise" /\ (backend = "bigquery" => Answer.exc # "NotFound")

(* C11: in does_table_exist of either module a 'not found' condition gives
   the result False, every other backend error is raised to the caller, and
   False is returned for nothing but 'not found'. *)
C11_NotFoundFalseOtherErrorsRaised ==
    ExistenceAsked =>
        /\ AnsweredNotFound => outcome = Return(PyFalse)
        /\ AnsweredOtherError => outcome.kind = "raise"
        /\ outcome = Return(PyFalse) => AnsweredNotFound

\* the claim's case on helpers.py, where it holds: an error other than
\* NotFound leaves does_table_exist as raised
C11_Witness ==
    /\ ExistenceAsked
    /\ backend = "bigquery"
    /\ AnsweredOtherError
    /\ outcome = Raise("Forbidden", 12)

\* Writer w found the table missing and was allowed to create it
SawMissing(w) ==
    /\ writers[w].pc \in {"submit", "wait", "done"}
    /\ ~writers[w].locals.table_already_exists
    /\ writers[w].args.create_table_if_missing

\* Writer w has submitted its load; the load it submitted
Submitted(w) == writers[w].job.state # "none"
LoadOf(w) == loads[writers[w].load]

\* Writer w's load completed without error and put rows into the table
Populated(w) ==
    /\ writers[w].job.state = "DONE"
    /\ IsNone(writers[w].job.error_result)
    /\ LoadOf(w).rows > 0

(* C12: when two write calls with create_table_if_missing=True both find the
   same table missing, every load either of them submits has the disposition
   WRITE_EMPTY, and (the warehouse refusing WRITE_EMPTY on a table that holds
   data) the two loads never both put their rows into the table. *)
C12_RaceCreatesExclusively ==
    (\A w \in Writers : SawMissing(w)) =>
        /\ \A w \in Writers :
              Submitted(w) => LoadOf(w).job_config.write_disposition = "WRITE_EMPTY"
        /\ ~(\A w \in Writers : Populated(w))

\* both writers found the table missing before either load; one load put its
\* rows into the table and the other, with rows of its own, failed
C12_Witness ==
    /\ \A w \in Writers : SawMissing(w) /\ writers[w].pc = "done" /\ Submitted(w)
    /\ wh_calls[1].request = "exists" /\ wh_calls[2].request = "exists"
    /\ \A w \in Writers : LoadOf(w).rows > 0
    /\ Populated(1)
    /\ writers[2].outcome.kind = "raise"
    /\ table = "populated"

\* fetch_table_data has ended; the statement it sent
Fetched == op = "fetch_table_data" /\ pc = "done"
SentSql == wh_calls[1].sql

\* the number of places where sub occurs in s; s begins with prefix
Occurrences(s, sub) ==
    Cardinality({i \in 1..(Len(s) - Len(sub) + 1) : SubSeq(s, i, i + Len(sub) - 1) = sub})
StartsWith(s, prefix) == Len(s) >= Len(prefix) /\ SubSeq(s, 1, Len(prefix)) = prefix

\* The caller's fragment begins with the keyword, in any letter case
BeginsWithWhere(where_clause) == StartsWith(Lower(where_clause), S_where)

(* C13: fetch_table_data of either module adds 'WHERE ' in front of the
   caller's fragment only if the fragment does not begin with the keyword:
   for a fragment that begins with 'where' in any letter case the statement
   holds the keyword exactly once, for any other fragment the statement holds
   'WHERE ' followed by the fragment. *)
C13_WherePrefixedOnlyIfOmitted ==
    Fetched =>
        IF BeginsWithWhere(args.where_clause)
        THEN Occurrences(Lower(SentSql), S_where) = 1
        ELSE Occurrences(SentSql, S_WHERE_ \o args.where_clause) = 1

\* the claim's case where it holds: a fragment without the keyword
C13_Witness ==
    /\ Fetched
    /\ args.where_clause = S_cond
    /\ Occurrences(SentSql, S_WHERE_ \o S_cond \o <<" ">>) = 1
    /\ Occurrences(Lower(SentSql), S_where) = 1

\* The select list the caller's fields stand for
SelectListFor(fields) ==
    IF fields.type = "str" THEN fields.value ELSE Join(<<",", " ">>, fields.items)

(* C14: the statement of fetch_table_data begins with 'SELECT ', then the
   select list: '*' for the string '*', the string itself for any other
   string, and for a tuple of one or more names the names joined by ', '. *)
C14_SelectListFromFields ==
    (Fetched /\ (args.fields.type = "tuple" => Len(args.fields.items) >= 1)) =>
        StartsWith(SentSql, S_select \o SelectListFor(args.fields) \o <<" ">> \o S_from)

\* the claim's case where it holds: a tuple of two names
C14_Witness ==
    /\ Fetched
    /\ args.fields = PyTuple(<<S_id, S_amount>>)
    /\ StartsWith(SentSql, S_select \o S_id \o <<",", " ">> \o S_amount \o <<" ">> \o S_from)

(* C15: for number_of_rows below 1 the statement of fetch_table_data has no
   LIMIT clause; for N >= 1 the statement ends with ' LIMIT N', and a read
   that returns gives at most N rows. *)
C15_LimitClause ==
    Fetched =>
        IF args.number_of_rows < 1
        THEN /\ Occurrences(SentSql, S_LIMIT_) = 0
             /\ IsNone(ParseLimit(SentSql))
        ELSE /\ ParseLimit(SentSql) = Some(args.number_of_rows)
             /\ Occurrences(SentSql, S_LIMIT_) = 1
             /\ outcome.kind = "return" => outcome.value.rows <= args.number_of_rows

\* a read with number_of_rows = 1 of a table that holds more returned one row
C15_Witness ==
    /\ Fetched
    /\ table = "populated"
    /\ args.number_of_rows = 1
    /\ EndsWith(SentSql, S_LIMIT_ \o <<"1">>)
    /\ outcome.kind = "return"
    /\ outcome.value.rows = 1

\* get_table_schema has returned; the rows it was given and the entries it gave
SchemaFetched == op = "get_table_schema" /\ pc = "done" /\ outcome.kind = "return"
GivenRows == wh_calls[1].response.value.items
Translated == outcome.value.items

(* C16: get_table_schema of either module returns one entry per metadata
   row, in order: name is the row's column_name, field_type its data_type,
   mode is REQUIRED when is_nullable is 'YES' and NULLABLE for any other
   value, and no entry has the key is_nullable. *)
C16_ModeInvertedFromNullable ==
    SchemaFetched =>
        /\ Len(Translated) = Len(GivenRows)
        /\ \A i \in 1..Len(GivenRows) :
            /\ DOMAIN Translated[i] = {"name", "field_type", "mode", "description"}
            /\ Translated[i]["name"] = GivenRows[i].column_name
            /\ Translated[i]["field_type"] = GivenRows[i].data_type
            /\ Translated[i]["description"] = GivenRows[i].description
            /\ Translated[i]["mode"] =
                  (IF GivenRows[i].is_nullable = S_YES THEN S_REQUIRED ELSE S_NULLABLE)

\* a nullable column and a column that is not, translated in one call
C16_Witness ==
    /\ SchemaFetched
    /\ Len(GivenRows) = 2
    /\ GivenRows[1].is_nullable = S_YES /\ Translated[1]["mode"] = S_REQUIRED
    /\ GivenRows[2].is_nullable = S_NO /\ Translated[2]["mode"] = S_NULLABLE

\* A read (fetch_table_data, fetch_sql_output, list_tables_in_dataset) has
\* ended after the warehouse answered 'not found'
ReadOps == {"fetch_table_data", "fetch_sql_output", "list_tables_in_dataset"}
ReadNotFound ==
    /\ op \in ReadOps
    /\ pc = "done"
    /\ wh_calls[Len(wh_calls)].response.kind = "raise"
    /\ wh_calls[Len(wh_calls)].response.condition = "not_found"

(* C17: a read of either module whose query the warehouse answers with 'not
   found' ends with an error raised to the caller, not with a returned value
   and not with a request to end the process (SystemExit), and it has sent
   its query once. *)
C17_NotFoundRaisedToCaller ==
    ReadNotFound =>
        /\ outcome.kind = "raise"
        /\ outcome.exc # "SystemExit"
        /\ Len(wh_calls) = 1

\* the claim's case on core.py, where it holds: RuntimeError from line 145
C17_Witness ==
    /\ ReadNotFound
    /\ op = "fetch_table_data"
    /\ backend = "bigquery"
    /\ outcome = Raise("RuntimeError", 145)
    /\ Len(wh_calls) = 1

\* A write call has ended after the warehouse finished its load job
LoadCompleted == op = "write" /\ pc = "done" /\ job.state = "DONE"

(* C18: when the load of a write call has completed with an error result the
   call ends with an exception that carries the job's errors (RuntimeError
   of line 293 carries load_job.errors) and returns nothing; when it has
   completed without one the call returns the load response. *)
C18_LoadFailureRaised ==
    LoadCompleted =>
        IF ~IsNone(job.error_result)
        THEN /\ outcome.kind = "raise"
             /\ InSeq(Val(job.error_result), outcome.args)
             /\ outcome.exc = "RuntimeError" => outcome.args = job.errors
        ELSE outcome = Return(LoadResponse)

\* a job that reported two errors ended the call with RuntimeError(errors)
C18_Witness ==
    /\ LoadCompleted
    /\ Len(job.errors) = 2
    /\ outcome = RaiseWith("RuntimeError", 293, job.errors)

\* The use of a SnowflakeClient is over: construction failed, or the scope
\* of the with statement was left
ClientDone == op = "snowflake_client" /\ pc = "done"

(* C19: when the use of a SnowflakeClient is over, whether the scope ended
   normally, with an exception or with exit(1), whether or not closing the
   cursor failed, and also when construction failed after connecting, the
   cursor and the connection are not left open. *)
C19_ClientReleased ==
    ClientDone => client.connection # "open" /\ client.cursor # "open"

\* the claim's case where it holds: exit(1) in the scope, both closed
C19_Witness ==
    /\ ClientDone
    /\ outcome = Exit1(279)
    /\ client = [connection |-> "closed", cursor |-> "closed"]

(* C20: a write call without a custom schema never calls get_detected_schema
   (new_table_schema stays the list of line 229 and the call never ends with
   the resolver's sys.exit), and every load it submits has autodetect set and
   no schema, for an existing table and for a table it creates. *)
C20_AutodetectWithoutCustomSchema ==
    (InWrite /\ IsNone(args.custom_table_schema)) =>
        /\ locals.new_table_schema.type = "list"
        /\ outcome.kind = "raise" => outcome.exc # "SystemExit"
        /\ \A i \in 1..Len(loads) :
            /\ loads[i].job_config.autodetect = Some(TRUE)
            /\ IsNone(loads[i].job_config.schema)

\* a table is created from a zero-row DataFrame without a custom schema:
\* the load is submitted with autodetect and no schema
C20_Witness ==
    /\ InWrite
    /\ IsNone(args.custom_table_schema)
    /\ ReportedMissing
    /\ dataframe.rows = 0
    /\ Len(loads) = 1
    /\ loads[1].job_config.write_disposition = "WRITE_EMPTY"
    /\ loads[1].job_config.autodetect = Some(TRUE)
    /\ IsNone(loads[1].job_config.schema)

\* The mode the resolver is to give the column of a caller's entry
ModeFor(entry) ==
    IF "mode" \in DOMAIN entry THEN Upper(entry["mode"]) ELSE S_NULLABLE

(* C21: for every entry of a valid custom schema, get_detected_schema of
   helpers.py returns, at the entry's position, a column whose mode is
   NULLABLE when the entry gives no mode and the entry's mode upper-cased
   otherwise, whose name is the entry's name lower-cased and whose type is the
   entry's field_type upper-cased. *)
C21_EntryResolvedToColumn ==
    (Resolved /\ backend = "bigquery" /\ ValidSchema(args.custom_schema)) =>
        \A i \in 1..Len(Val(args.custom_schema)) :
            LET entry == Val(args.custom_schema)[i] IN
            /\ outcome.kind = "return"
            /\ outcome.value.items[i].mode = ModeFor(entry)
            /\ outcome.value.items[i].name = Lower(entry["name"])
            /\ outcome.value.items[i].field_type = Upper(entry["field_type"])

\* an entry without a mode and an entry with mode 'required' were resolved
\* to a NULLABLE and a REQUIRED column
C21_Witness ==
    /\ Resolved
    /\ backend = "bigquery"
    /\ ValidSchema(args.custom_schema)
    /\ Len(Val(args.custom_schema)) = 2
    /\ "mode" \notin DOMAIN Val(args.custom_schema)[1]
    /\ "mode" \in DOMAIN Val(args.custom_schema)[2]
    /\ Val(args.custom_schema)[2]["mode"] = S_required
    /\ outcome.kind = "return"
    /\ outcome.value.items[1].mode = S_NULLABLE
    /\ outcome.value.items[2].mode = S_REQUIRED
    /\ outcome.value.items[2].field_type = S_STRING

\* The running write call has resolved the caller's custom schema: its
\* get_detected_schema call returned
ResolvedInWrite ==
    /\ InWrite
    /\ backend = "bigquery"
    /\ ~IsNone(args.custom_table_schema)
    /\ locals.new_table_schema.type = "tuple"

\* The names of the resolved columns that come from the caller's entries
ResolvedNames ==
    [i \in 1..Len(Val(args.custom_table_schema)) |-> locals.new_table_schema.items[i].name]
\* The names as the caller gave them
GivenNames ==
    [i \in 1..Len(Val(args.custom_table_schema)) |-> Val(args.custom_table_schema)[i]["name"]]

(* C22 as claimed: the column names of the schema a write call resolves are
   exactly as the caller gave them when the call is made with
   accept_capital_letters, and lower-cased when it is not. *)
C22_ColumnCaseFollowsOptOut ==
    ResolvedInWrite =>
        ResolvedNames = IF args.accept_capital_letters
                        THEN GivenNames
                        ELSE [i \in DOMAIN GivenNames |-> Lower(GivenNames[i])]

(* C22 as amended: the column names of the schema a write call resolves are
   lower-cased with and without accept_capital_letters; the flag decides the
   letter case of the destination table's name only, which is kept as given
   (trimmed) with the flag and lower-cased without it. *)
C22_OptOutKeepsTableCaseOnly ==
    /\ ResolvedInWrite =>
        ResolvedNames = [i \in DOMAIN GivenNames |-> Lower(GivenNames[i])]
    /\ InWrite =>
        locals.destination_table =
            IF args.accept_capital_letters
            THEN Strip(args.destination_table)
            ELSE Lower(Strip(args.destination_table))

\* with the flag set, the table name kept its capital and the column 'Id'
\* was resolved as 'id'
C22_Witness ==
    /\ ResolvedInWrite
    /\ args.accept_capital_letters
    /\ GivenNames[1] = S_Id
    /\ ResolvedNames[1] = S_id
    /\ locals.destination_table = S_Sales

\* The column names of the schema get_detected_schema returned
ReturnedNames == [i \in 1..Len(outcome.value.items) |-> outcome.value.items[i].name]

(* C23: every schema get_detected_schema returns has pairwise distinct column
   names and holds the system column exactly once, as its last element; so
   two entries whose names are equal after lower-casing never give a schema
   with a name twice. *)
C23_ResolvedNamesDistinct ==
    (Resolved /\ outcome.kind = "return") =>
        /\ \A i, j \in DOMAIN ReturnedNames : i # j => ReturnedNames[i] # ReturnedNames[j]
        /\ ReturnedNames[Len(ReturnedNames)] = S_created_at
        /\ Cardinality({i \in DOMAIN ReturnedNames : ReturnedNames[i] = S_created_at}) = 1

\* the claim's case where it holds: one entry, resolved to its column and
\* the system column
C23_Witness ==
    /\ Resolved
    /\ outcome.kind = "return"
    /\ Len(Val(args.custom_schema)) = 1
    /\ ReturnedNames = <<S_id, S_created_at>>

\* The running write call has passed the system column step (lines 248-261,
\* snowflake.py 372-385), or ended in it
PastSystemColumn ==
    /\ InWrite
    /\ \/ pc = "wait"
       \/ pc = "done" /\ loads # <<>>
       \/ /\ pc = "done"
          /\ outcome.kind = "raise"
          /\ outcome.line \in {WriteLine(backend, 260), WriteLine(backend, 263)}

\* The system column's definition of lines 254-259
SystemColumnDefinition ==
    [name |-> S_bq_created_at, field_type |-> S_timestamp, mode |-> S_required,
     description |-> S_desc_added]

\* The schema of the call ends with the system column's definition
DefinitionAppended ==
    /\ locals.new_table_schema.items # <<>>
    /\ locals.new_table_schema.items[Len(locals.new_table_schema.items)] = SystemColumnDefinition

(* C24: a write call with a zero-row DataFrame adds no system column to the
   DataFrame and appends the system column's definition (bq_created_at,
   timestamp, required) to the schema; the load is still submitted, and for a
   call with a custom schema the schema attached to it is the prior schema
   plus that definition. *)
C24_ZeroRowsDefinitionAppended ==
    (PastSystemColumn /\ dataframe.rows = 0) =>
        /\ ~InSeq(S_bq_created_at, dataframe.columns)
        /\ DefinitionAppended
        /\ Len(loads) = 1
        /\ ~IsNone(args.custom_table_schema) =>
            /\ ~IsNone(loads[1].job_config.schema)
            /\ Val(loads[1].job_config.schema) = locals.new_table_schema

\* the claim's case where it holds: no custom schema, the definition is
\* appended to the list of line 229 and the load is submitted
C24_Witness ==
    /\ PastSystemColumn
    /\ dataframe.rows = 0
    /\ IsNone(args.custom_table_schema)
    /\ dataframe.columns = <<S_id>>
    /\ locals.new_table_schema.items = <<SystemColumnDefinition>>
    /\ Len(loads) = 1

\* The call ended by terminating the process: SystemExit was raised
ProcessTerminated == pc = "done" /\ outcome.kind = "raise" /\ outcome.exc = "SystemExit"

\* The exit status of a process ended by SystemExit(code): 0 for code None,
\* the code itself for an integer
ExitStatus(code) == IF IsNone(code) THEN 0 ELSE Val(code)

\* SnowflakeClient was constructed without usable authentication_params, or
\* with a method that is neither KEY_PAIR nor USER_LOGIN in any letter case
Misconfigured ==
    /\ op = "snowflake_client"
    /\ \/ IsNone(args.authentication_params)
       \/ Val(args.authentication_params) = <<>>
       \/ Upper(args.authentication_method) \notin {S_KEY_PAIR, S_USER_LOGIN}
       \/ /\ Upper(args.authentication_method) = S_KEY_PAIR
          /\ \/ NotGet(Val(args.authentication_params), "user")
             \/ NotGet(Val(args.authentication_params), "rsa_key_path")
       \/ /\ Upper(args.authentication_method) = S_USER_LOGIN
          /\ \/ NotGet(Val(args.authentication_params), "user")
             \/ NotGet(Val(args.authentication_params), "password")

(* C25: every failure that terminates the process does so with a non-zero
   exit status: the construction of a SnowflakeClient with missing
   authentication_params, missing keys for the method or an unknown method
   (which always terminates), and the schema validation failures of
   get_detected_schema, called on its own or by a write. *)
C25_TerminationNonZero ==
    /\ ProcessTerminated => ExitStatus(outcome.code) # 0
    /\ (Misconfigured /\ pc = "done") => ProcessTerminated

\* the claim's case where it holds: a client built with the unknown method
\* 'token' and complete parameters ends the process with status 1
C25_Witness ==
    /\ Misconfigured
    /\ args.authentication_method = S_TOKEN
    /\ ~IsNone(args.authentication_params)
    /\ Val(args.authentication_params) # <<>>
    /\ ProcessTerminated
    /\ outcome.line = 54
    /\ ExitStatus(outcome.code) = 1

\* The schema attached to the load holds the columns of the caller's
\* entries, in the caller's order
HoldsCallersColumns(attached, entries) ==
    /\ ~IsNone(attached)
    /\ Len(Val(attached).items) >= Len(entries)
    /\ \A i \in 1..Len(entries) : Val(attached).items[i].name = Lower(entries[i]["name"])

(* C26: a write call that is given a (valid) custom schema and submits its
   load attaches an explicit schema that holds every column of the caller, in
   order, whether the destination table existed or is being created. *)
C26_LoadCarriesCustomSchema ==
    (InWrite /\ ValidSchema(args.custom_table_schema) /\ loads # <<>>) =>
        HoldsCallersColumns(loads[1].job_config.schema, Val(args.custom_table_schema))

\* the claim's case where it holds: the table is created from a DataFrame
\* with rows and the load carries both columns of the caller
C26_Witness ==
    /\ InWrite
    /\ ValidSchema(args.custom_table_schema)
    /\ Len(Val(args.custom_table_schema)) = 2
    /\ ReportedMissing
    /\ loads # <<>>
    /\ HoldsCallersColumns(loads[1].job_config.schema, Val(args.custom_table_schema))

\* The load of the running write call carries an explicit schema with
\* columns, and a DataFrame whose system column was populated (line 251)
ExplicitSchemaAndPopulated ==
    /\ InWrite
    /\ loads # <<>>
    /\ ~IsNone(loads[1].job_config.schema)
    /\ Val(loads[1].job_config.schema).items # <<>>
    /\ loads[1].rows > 0

\* The system column of the attached schema (its last column), and the
\* system column of the DataFrame handed to the load (its last column)
AttachedSystemColumn ==
    Val(loads[1].job_config.schema).items[Len(Val(loads[1].job_config.schema).items)]
LoadedSystemColumn == loads[1].columns[Len(loads[1].columns)]

(* C27: in a write call that attaches an explicit schema and populates the
   system column, the system column of the attached schema has the name and
   the type of the system column added to the DataFrame, and that name is the
   one get_detected_schema refuses as reserved. *)
C27_SystemColumnConsistent ==
    ExplicitSchemaAndPopulated =>
        /\ AttachedSystemColumn.name = LoadedSystemColumn
        /\ AttachedSystemColumn.field_type = SystemValueType
        /\ Reserved(<<LoadedSystemColumn>>)

\* The existence requests of the running call whose does_table_exist returned
ExistenceResults ==
    {wh_calls[i].result : i \in {j \in 1..Len(wh_calls) :
                                    /\ wh_calls[j].request = "exists"
                                    /\ wh_calls[j].result.kind = "return"}}

(* C28: whenever does_table_exist of either module returns, called on its
   own or by a write, the value is True or False and never None. *)
C28_ExistenceResultIsBoolean ==
    \A r \in ExistenceResults : r.value \in {PyTrue, PyFalse}

\* a write asked for a table that is absent, does_table_exist returned
\* False, and the write policy took the table as missing
C28_Witness ==
    /\ op = "write"
    /\ table = "absent"
    /\ ExistenceResults = {Return(PyFalse)}
    /\ ~locals.table_already_exists

(* C29: get_detected_schema and the write call leave the caller's objects as
   they were: when get_detected_schema has returned, the caller's schema
   entries have the keys and values they were passed with, and when a write
   call has ended, by return or by exception, the caller's DataFrame is one of
   the frames a caller passes, with the columns it had before the call. *)
C29_InputsUnchanged ==
    /\ (Resolved /\ outcome.kind = "return") => schema_obj = args.custom_schema
    /\ (InWrite /\ pc = "done") => dataframe \in DataFrames

\* the claim's case where it holds: every entry of the schema came with
\* its mode, and the entries are as they were after the call returned
C29_Witness ==
    /\ Resolved
    /\ outcome.kind = "return"
    /\ Len(Val(args.custom_schema)) = 2
    /\ \A i \in 1..2 : "mode" \in DOMAIN Val(args.custom_schema)[i]
    /\ schema_obj = args.custom_schema

\* The running write call has submitted a load with the create-empty disposition
CreateEmptySubmitted ==
    /\ InWrite
    /\ \E i \in 1..Len(loads) : loads[i].job_config.write_disposition = "WRITE_EMPTY"

(* C30: with one caller, a write call with create_table_if_missing false
   never submits a create-empty load, a write call whose existence check
   found the table never submits one whatever the flag, and a create-empty
   load is submitted only after the existence check returned False with
   create_table_if_missing true. *)
C30_CreateEmptyOnlyWhenMissingAndAllowed ==
    /\ (InWrite /\ ~args.create_table_if_missing) => ~CreateEmptySubmitted
    /\ ReportedExisting => ~CreateEmptySubmitted
    /\ CreateEmptySubmitted =>
        /\ wh_calls[1].request = "exists"
        /\ wh_calls[1].result = Return(PyFalse)
        /\ args.create_table_if_missing

\* append to a missing table with the flag set: one create-empty load after
\* the existence check returned False
C30_Witness ==
    /\ CreateEmptySubmitted
    /\ InsertTypeWord = S_append
    /\ args.create_table_if_missing
    /\ wh_calls[1].result = Return(PyFalse)
    /\ Len(loads) = 1
    /\ pc = "wait"

====
